---- MODULE Spec2Model ----
(***************************************************************************)
(* Model of modal.py: a straight-line training script.                     *)
(*   load dataset -> normalize -> define model -> compile -> fit -> save   *)
(* The script's statements are the actions; the directory tree it reads    *)
(* and the file it writes are the environment part of the state.  The      *)
(* framework calls are modelled by what they do with the arguments the     *)
(* script passes (all other arguments at their defaults).                  *)
(***************************************************************************)
EXTENDS Integers, Sequences, FiniteSets, TLC

(***************************************************************************)
(* Bounds of the model.                                                    *)
(***************************************************************************)
\* class subfolders of the input directory: 0..MaxClasses
MaxClasses == 3
\* decodable images per class folder: 0, 1, or up to MaxFullBatches full batches
MaxFullBatches == 1
\* length of the sample batch the pixel map is applied to
MaxSampleLen == 2
\* sampling stride over the pixel range 0..max_pixel
PixelStride == 51

(***************************************************************************)
(* Literals of the script.                                                 *)
(***************************************************************************)
img_size == <<224, 224>>
batch_size == 32
channels == 3
max_pixel == 255
input_shape == <<224, 224, 3>>
conv1_filters == 32
conv2_filters == 64
kernel == 3
pool == 2
dense_units == 128
epochs == 5
save_path == "leaf_model.h5"

VARIABLES
    dir_exists,   \* the directory "dataset" exists and can be listed
    classes,      \* its class subfolders in sorted order: [valid, corrupt] file counts
    writable,     \* save_path can be opened for writing
    prior_file,   \* what save_path held when the script started
    out_file,     \* what save_path holds
    pc,           \* the statement about to run, "done", or "failed"
    trace,        \* the statements started so far, in order
    error,        \* the exception that ended the run, or "none"
    train_ds,     \* the dataset object bound to train_ds
    model,        \* the model object bound to model
    epoch,        \* epochs completed by fit
    seen,         \* images consumed in the current epoch
    batches,      \* batches consumed since fit began
    batch,        \* the batch last drawn from train_ds
    save_count,   \* completed writes of save_path
    x_in,         \* a sample batch of (pixel, label) pairs given to the map
    x_out         \* what the map made of it

env_vars == <<dir_exists, classes, writable, prior_file>>
run_vars == <<out_file, pc, trace, error, train_ds, model, epoch, seen, batches,
              batch, save_count>>
map_vars == <<x_in, x_out>>
vars == <<env_vars, run_vars, map_vars>>

None == [kind |-> "none"]

Min(a, b) == IF a < b THEN a ELSE b

RECURSIVE SumOver(_, _)
SumOver(f, n) == IF n = 0 THEN 0 ELSE f[n] + SumOver(f, n - 1)

(***************************************************************************)
(* The input directory tree and the output path, as the script finds them. *)
(***************************************************************************)
\* numbers of decodable images a class folder may hold
ValidCounts == {0, 1} \cup {q * batch_size : q \in 1..MaxFullBatches}
\* numbers of files a class folder may hold that carry an image extension
\* but cannot be decoded
CorruptCounts == {0, 1}
ClassFolder == [valid : ValidCounts, corrupt : CorruptCounts]
ClassFolders == UNION {[1..k -> ClassFolder] : k \in 0..MaxClasses}

NoFile == [kind |-> "absent"]
\* a file left at save_path before the run: zero bytes, or some other content
OldFiles == {[kind |-> "empty"], [kind |-> "other"]}

\* files with an image extension under the class folders (what the loader
\* indexes; it passes over every other file, so those are not in the state)
NumFiles(cs) == SumOver([i \in 1..Len(cs) |-> cs[i].valid + cs[i].corrupt], Len(cs))
NumCorrupt(cs) == SumOver([i \in 1..Len(cs) |-> cs[i].corrupt], Len(cs))
(***************************************************************************)
(* train_ds = image_dataset_from_directory(data_dir, image_size=img_size,  *)
(*                                         batch_size=batch_size)          *)
(* Lists the class folders, indexes the files with an image extension and  *)
(* labels each with its folder's index.  Raises when the directory cannot  *)
(* be listed or no such file is found.  Files are decoded only when a      *)
(* batch is drawn.                                                         *)
(***************************************************************************)
LoaderShape == img_size \o <<channels>>

Dataset(cs) == [kind |-> "dataset", files |-> cs, num_classes |-> Len(cs),
                image_shape |-> LoaderShape, batch_size |-> batch_size,
                mapped |-> FALSE]

\* variant: only a missing directory is detected when loading
LoadFails_MissingOnly == ~dir_exists

LoadFails == ~dir_exists \/ NumFiles(classes) = 0

Fail(e) == /\ pc' = "failed"
           /\ error' = e

Load ==
    /\ pc = "load"
    /\ trace' = Append(trace, "load")
    /\ IF LoadFails
       THEN /\ Fail("config")
            /\ UNCHANGED train_ds
       ELSE /\ train_ds' = Dataset(classes)
            /\ pc' = "normalize"
            /\ UNCHANGED error
    /\ UNCHANGED <<env_vars, map_vars, out_file, model, epoch, seen, batches,
                   batch, save_count>>

(***************************************************************************)
(* train_ds = train_ds.map(lambda x, y: (x/255.0, y))                      *)
(***************************************************************************)
\* variant: division by 256 instead of 255
rescale_256(p) == [num |-> p, den |-> max_pixel + 1]

\* x/255.0 on one pixel value, as an exact fraction
rescale(p) == [num |-> p, den |-> max_pixel]

\* the lambda on one batch of (pixel, label) pairs
MapBatch(b) == [i \in 1..Len(b) |-> [pixel |-> rescale(b[i].pixel), label |-> b[i].label]]

Normalize ==
    /\ pc = "normalize"
    /\ trace' = Append(trace, "normalize")
    /\ train_ds' = [train_ds EXCEPT !.mapped = TRUE]
    /\ pc' = "define"
    /\ UNCHANGED <<env_vars, map_vars, out_file, error, model, epoch, seen,
                   batches, batch, save_count>>

\* the lambda applied to the sample batch; the map is lazy, it runs on batches
\* as fit draws them
ApplyMap ==
    /\ pc = "fit_epoch"
    /\ train_ds.mapped
    /\ x_out = None
    /\ x_out' = [kind |-> "batch", items |-> MapBatch(x_in)]
    /\ UNCHANGED <<env_vars, run_vars, x_in>>

(***************************************************************************)
(* model = keras.Sequential([...])                                         *)
(***************************************************************************)
\* variant: convolution with padding "same"
ConvOut_Same(s, filters, k) == <<s[1], s[2], filters>>

\* Conv2D(filters, (k,k)) with the default padding "valid" and stride 1
ConvOut(s, filters, k) == <<s[1] - k + 1, s[2] - k + 1, filters>>
\* MaxPooling2D() with the default pool size 2, stride 2, padding "valid"
PoolOut(s, p) == <<s[1] \div p, s[2] \div p, s[3]>>
FlattenOut(s) == <<s[1] * s[2] * s[3]>>
DenseOut(s, units) == <<units>>

\* variant: the output width taken from the directory scan
output_units_from_scan == Len(classes)

\* Dense(2, activation='softmax')
output_units == 2

\* output shape of the input and of each of the seven layers, in order
LayerShapes ==
    LET s0 == input_shape
        s1 == ConvOut(s0, conv1_filters, kernel)
        s2 == PoolOut(s1, pool)
        s3 == ConvOut(s2, conv2_filters, kernel)
        s4 == PoolOut(s3, pool)
        s5 == FlattenOut(s4)
        s6 == DenseOut(s5, dense_units)
        s7 == DenseOut(s6, output_units)
    IN  <<s0, s1, s2, s3, s4, s5, s6, s7>>

\* the freshly initialised parameters: no gradient step applied, all finite
InitialWeights == [steps |-> 0, nan |-> FALSE]

OutputWidth(m) == m.shapes[Len(m.shapes)][1]

Define ==
    /\ pc = "define"
    /\ trace' = Append(trace, "define")
    /\ model' = [kind |-> "model", shapes |-> LayerShapes,
                 weights |-> InitialWeights, compiled |-> FALSE]
    /\ pc' = "compile"
    /\ UNCHANGED <<env_vars, map_vars, out_file, error, train_ds, epoch, seen,
                   batches, batch, save_count>>

\* variant: compile also probes the output path and raises when it cannot be
\* written
Compile_CheckPath ==
    /\ pc = "compile"
    /\ trace' = Append(trace, "compile")
    /\ IF writable
       THEN /\ model' = [model EXCEPT !.compiled = TRUE]
            /\ pc' = "fit"
            /\ UNCHANGED error
       ELSE /\ Fail("io")
            /\ UNCHANGED model
    /\ UNCHANGED <<env_vars, map_vars, out_file, train_ds, epoch, seen,
                   batches, batch, save_count>>

(***************************************************************************)
(* model.compile(optimizer='adam', loss='sparse_categorical_crossentropy', *)
(*               metrics=['accuracy'])                                     *)
(***************************************************************************)
Compile ==
    /\ pc = "compile"
    /\ trace' = Append(trace, "compile")
    /\ model' = [model EXCEPT !.compiled = TRUE]
    /\ pc' = "fit"
    /\ UNCHANGED <<env_vars, map_vars, out_file, error, train_ds, epoch, seen,
                   batches, batch, save_count>>

(***************************************************************************)
(* model.fit(train_ds, epochs=5)                                           *)
(* One pass over train_ds per epoch, one gradient step per batch.  The     *)
(* loader shuffles the files anew for each pass and keeps the short last   *)
(* batch.  No callbacks, no validation data.                               *)
(***************************************************************************)
\* variant: batches one image short
BatchSizeOf_Short(r) == Min(batch_size - 1, r)

\* size of the next batch when r files of the pass are left
BatchSizeOf(r) == Min(batch_size, r)

\* variant: the label bound off by one
LabelValid_OffByOne(label, units) == label < units - 1

\* the loss accepts an integer label only below the output width
LabelValid(label, units) == label < units

\* decodable images of the dataset whose label the loss rejects
NumRejected(ds, m) ==
    SumOver([i \in 1..Len(ds.files) |->
               IF LabelValid(i - 1, OutputWidth(m)) THEN 0 ELSE ds.files[i].valid],
            Len(ds.files))

\* variant: training stops after the first pass
TrainingDone_Early(e) == e >= 1

\* fit's epoch loop ends after the given number of passes
TrainingDone(e) == e = epochs

FitBegin ==
    /\ pc = "fit"
    /\ trace' = Append(trace, "fit")
    /\ epoch' = 0
    /\ seen' = 0
    /\ batches' = 0
    /\ pc' = "fit_epoch"
    /\ UNCHANGED <<env_vars, map_vars, out_file, error, train_ds, model, batch,
                   save_count>>

\* the pass goes on, or the epoch ends and fit goes on or returns
Advance(size) ==
    LET n == NumFiles(train_ds.files) IN
    IF seen + size < n
    THEN /\ seen' = seen + size
         /\ UNCHANGED <<epoch, pc>>
    ELSE /\ seen' = 0
         /\ epoch' = epoch + 1
         /\ pc' = IF TrainingDone(epoch + 1) THEN "save" ELSE "fit_epoch"

\* Draw the next batch of the shuffled pass and train on it.  Which files the
\* shuffle puts in the batch is not determined; what matters to the run is
\* whether one of them fails to decode or carries a label the loss rejects.
\* A run that got here with finite weights has met neither kind of file yet;
\* with weights already NaN the loss check is the one that does not raise.
FitBatch ==
    /\ pc = "fit_epoch"
    /\ LET n    == NumFiles(train_ds.files)
           c    == NumCorrupt(train_ds.files)
           h    == IF model.weights.nan THEN 0 ELSE NumRejected(train_ds, model)
           r    == n - seen
           size == BatchSizeOf(r)
           drawn == [kind |-> "batch", size |-> size,
                     image_shape |-> train_ds.image_shape,
                     scaled |-> train_ds.mapped,
                     index |-> (seen \div train_ds.batch_size) + 1]
       IN
       \/ \* a file of the batch cannot be decoded: the iterator raises
          \* instead of yielding the batch
          /\ c >= 1
          /\ Fail("decode")
          /\ UNCHANGED <<model, epoch, seen, batches, batch>>
       \/ \* a label is out of range and the loss kernel checks it (CPU)
          /\ h >= 1
          /\ r - c >= size
          /\ batch' = drawn
          /\ Fail("label_range")
          /\ UNCHANGED <<model, epoch, seen, batches>>
       \/ \* a label is out of range and the kernel does not check (GPU):
          \* the loss is NaN and so is every weight after the step
          /\ h >= 1
          /\ r - c >= size
          /\ batch' = drawn
          /\ model' = [model EXCEPT !.weights.steps = @ + 1,
                                    !.weights.nan = TRUE]
          /\ batches' = batches + 1
          /\ Advance(size)
          /\ UNCHANGED error
       \/ \* every file decodes and every label is accepted
          /\ r - c - h >= size
          /\ batch' = drawn
          /\ model' = [model EXCEPT !.weights.steps = @ + 1]
          /\ batches' = batches + 1
          /\ Advance(size)
          /\ UNCHANGED error
    /\ UNCHANGED <<env_vars, map_vars, out_file, trace, train_ds, save_count>>

(***************************************************************************)
(* model.save("leaf_model.h5")                                             *)
(***************************************************************************)
\* variant: the file gets the parameters the model was created with
Serialize_Initial(m) == [shapes |-> m.shapes, weights |-> InitialWeights]

\* what save writes: topology and parameter values
Serialize(m) == [shapes |-> m.shapes, weights |-> m.weights]

\* variant: a failed write sends the run back to training
Save_Retry ==
    /\ pc = "save"
    /\ trace' = Append(trace, "save")
    /\ IF writable
       THEN /\ out_file' = [kind |-> "model", content |-> Serialize(model)]
            /\ save_count' = save_count + 1
            /\ pc' = "done"
       ELSE /\ pc' = "fit"
            /\ UNCHANGED <<out_file, save_count>>
    /\ UNCHANGED <<env_vars, map_vars, error, train_ds, model, epoch, seen,
                   batches, batch>>

Save ==
    /\ pc = "save"
    /\ trace' = Append(trace, "save")
    /\ IF writable
       THEN /\ out_file' = [kind |-> "model", content |-> Serialize(model)]
            /\ save_count' = save_count + 1
            /\ pc' = "done"
            /\ UNCHANGED error
       ELSE /\ Fail("io")
            /\ UNCHANGED <<out_file, save_count>>
    /\ UNCHANGED <<env_vars, map_vars, train_ds, model, epoch, seen, batches,
                   batch>>

(***************************************************************************)
(* Specifications.                                                         *)
(***************************************************************************)
EnvInit ==
    /\ dir_exists \in BOOLEAN
    /\ classes \in ClassFolders
    /\ ~dir_exists => classes = <<>>
    /\ writable \in BOOLEAN
    /\ prior_file \in {NoFile} \cup OldFiles
    /\ out_file = prior_file

RunInit ==
    /\ pc = "load"
    /\ trace = <<>>
    /\ error = "none"
    /\ train_ds = None
    /\ model = None
    /\ epoch = 0
    /\ seen = 0
    /\ batches = 0
    /\ batch = None
    /\ save_count = 0

Init ==
    /\ EnvInit
    /\ RunInit
    /\ x_in = <<>>
    /\ x_out = None

Next ==
    \/ Load
    \/ Normalize
    \/ Define
    \/ Compile
    \/ FitBegin
    \/ FitBatch
    \/ Save

Spec == Init /\ [][Next]_vars

\* The interpreter runs the next statement whenever there is one.
FairSpec == Spec /\ WF_vars(Next)

\* One run on a two-class directory, with the map applied to sample batches.
Pixels == {p \in 0..max_pixel : p % PixelStride = 0} \cup {1, max_pixel - 1, max_pixel}
Samples == UNION {[1..k -> [pixel : Pixels, label : 0..(output_units - 1)]] :
                    k \in 0..MaxSampleLen}

MapInit ==
    /\ dir_exists = TRUE
    /\ classes = <<[valid |-> batch_size, corrupt |-> 0], [valid |-> 1, corrupt |-> 0]>>
    /\ writable = TRUE
    /\ prior_file = NoFile
    /\ out_file = NoFile
    /\ RunInit
    /\ x_in \in Samples
    /\ x_out = None

MapNext ==
    \/ Next
    \/ ApplyMap

MapSpec == MapInit /\ [][MapNext]_vars

(***************************************************************************)
(* Definitions shared by the properties.                                   *)
(***************************************************************************)
PhaseOrder == <<"load", "normalize", "define", "compile", "fit", "save">>

IsPrefix(s, t) == /\ Len(s) <= Len(t)
                  /\ \A i \in 1..Len(s) : s[i] = t[i]

Started(stmt) == \E i \in 1..Len(trace) : trace[i] = stmt

\* statements started when control is at the given position
Position(p) ==
    CASE p = "load" -> 0
      [] p = "normalize" -> 1
      [] p = "define" -> 2
      [] p = "compile" -> 3
      [] p = "fit" -> 4
      [] p = "fit_epoch" -> 5
      [] p = "save" -> 5
      [] p = "done" -> 6

\* not trained (0) -> training (1) -> trained (2) -> saved (3)
LifeRank(p) ==
    CASE p \in {"load", "normalize", "define", "compile", "fit"} -> 0
      [] p = "fit_epoch" -> 1
      [] p = "save" -> 2
      [] p = "done" -> 3

Terminal == pc \in {"done", "failed"}

\* batches in one pass over n files
NumBatches(n) == (n + batch_size - 1) \div batch_size

TotalFiles == NumFiles(classes)

TotalValid == SumOver([i \in 1..Len(classes) |-> classes[i].valid], Len(classes))

Saved == /\ pc = "done"
         /\ out_file.kind = "model"

(***************************************************************************)
(* C1: the statements run in the one order load, normalize, define,        *)
(* compile, fit, save: the statements started so far are always a prefix   *)
(* of that order (none twice, none skipped, none re-entered), control is   *)
(* right behind the last one started, and the lifecycle not trained ->     *)
(* training -> trained -> saved only moves forward one stage at a time     *)
(* unless the run fails.                                                   *)
(***************************************************************************)
C1_PhasesInOrder ==
    /\ [](/\ IsPrefix(trace, PhaseOrder)
          /\ pc # "failed" => Len(trace) = Position(pc))
    /\ [][\/ pc' = "failed"
          \/ pc = "failed"
          \/ LifeRank(pc') \in {LifeRank(pc), LifeRank(pc) + 1}]_vars

C1_Witness == pc = "done" /\ trace = PhaseOrder

(***************************************************************************)
(* C2: when fit has returned, exactly 5 epochs have run and each was a     *)
(* full pass: 5 * NumBatches batches were trained on, one gradient step    *)
(* each; inside fit the batch count matches the epoch and the position in  *)
(* the pass; the output file is not touched while control is in fit, and   *)
(* save is not started before the 5th epoch has ended.                     *)
(***************************************************************************)
C2_FullEpochs ==
    /\ [](/\ (pc \in {"save", "done"} \/ Started("save")) =>
                /\ epoch = 5
                /\ batches = 5 * NumBatches(TotalFiles)
                /\ model.weights.steps = batches
          /\ pc = "fit_epoch" =>
                /\ epoch < 5
                /\ seen < TotalFiles
                /\ seen % batch_size = 0
                /\ batches = epoch * NumBatches(TotalFiles) + seen \div batch_size
                /\ out_file = prior_file /\ save_count = 0)
    /\ [][(pc \in {"fit", "fit_epoch"}) => (out_file' = out_file)]_vars

C2_Witness == pc = "save" /\ epoch = 5 /\ batches = 15

(***************************************************************************)
(* C3 as stated: with exactly two class folders, each holding at least one *)
(* valid image, and a writable output path, the run raises no error.       *)
(***************************************************************************)
C3_Pre ==
    /\ dir_exists
    /\ Len(classes) = 2
    /\ \A i \in 1..Len(classes) : classes[i].valid >= 1
    /\ writable

C3_Original == C3_Pre => pc # "failed"

(***************************************************************************)
(* C3 as amended: if in addition no class folder holds an image file that  *)
(* cannot be decoded, the run eventually ends saved: all 5 epochs done, no *)
(* error, and leaf_model.h5 holds the serialized model (exists, not empty).*)
(***************************************************************************)
C3_Valid == C3_Pre /\ NumCorrupt(classes) = 0

C3_EventuallySaved ==
    C3_Valid ~> (Saved /\ epoch = 5 /\ error = "none")

C3_Witness == C3_Valid /\ Saved /\ epoch = 5 /\ prior_file.kind = "absent"

(***************************************************************************)
(* C4 as stated: with a number of class folders other than 2 (and at least *)
(* one) the run ends either in an error raised while compiling or          *)
(* training, or with a saved model whose output width 2 differs from the   *)
(* class count.                                                            *)
(***************************************************************************)
TrainingError ==
    /\ pc = "failed"
    /\ error \in {"label_range", "decode"}
    /\ Started("fit")
    /\ ~Started("save")

SavedMismatch ==
    /\ Saved
    /\ out_file.content.shapes[Len(out_file.content.shapes)] = <<2>>
    /\ Len(classes) # 2

C4_Original ==
    (dir_exists /\ Len(classes) >= 1 /\ Len(classes) # 2 /\ Terminal) =>
        (TrainingError \/ SavedMismatch)

(***************************************************************************)
(* C4 as amended: the output width is 2 whatever the class count, and      *)
(* agrees with the class count the loader found only when there are two    *)
(* class folders; nothing between loading and training looks at the class  *)
(* count, so once loading has succeeded the run can fail only in fit or in *)
(* save; and with a class count other than 2, loading successful and the   *)
(* output path writable, the run ends either in an error raised during     *)
(* training or with a saved model of width 2, unequal to the class count.  *)
(***************************************************************************)
C4_WidthFixed ==
    /\ model # None =>
          /\ OutputWidth(model) = 2
          /\ (OutputWidth(model) = train_ds.num_classes) <=> (Len(classes) = 2)
    /\ (train_ds # None /\ pc = "failed") => Started("fit")
    /\ (Len(classes) # 2 /\ TotalFiles > 0 /\ writable /\ Terminal) =>
          (TrainingError \/ SavedMismatch)

C4_Witness == Len(classes) = 3 /\ classes[3].valid >= 1 /\ SavedMismatch

(***************************************************************************)
(* C5 as stated: when the input directory is missing, empty or without any *)
(* readable image, the run never gets past loading and builds no model.    *)
(***************************************************************************)
NoReadableImage == ~dir_exists \/ TotalValid = 0

C5_Original ==
    NoReadableImage => (pc \in {"load", "failed"} /\ model = None)

(***************************************************************************)
(* C5 as amended: when the input directory is missing or holds no file     *)
(* with an image extension in a class folder, loading raises a             *)
(* configuration error and the run ends there: load is the only statement  *)
(* started, no dataset and no model exist, no batch and no epoch has run,  *)
(* nothing follows the failure, and the output path keeps what it held.    *)
(* When image files exist but none can be decoded, loading succeeds and    *)
(* the run fails on the first batch in fit, after the model was built,     *)
(* with no gradient step taken and the output path still untouched.        *)
(***************************************************************************)
NoImageFile ==
    ~dir_exists \/ \A i \in 1..Len(classes) : classes[i].valid + classes[i].corrupt = 0

OnlyCorrupt == dir_exists /\ TotalValid = 0 /\ ~NoImageFile

C5_LoadAborts ==
    /\ NoImageFile =>
          /\ pc \in {"load", "failed"}
          /\ pc = "failed" => (error = "config" /\ trace = <<"load">> /\ ~ENABLED Next)
          /\ train_ds = None /\ model = None
          /\ epoch = 0 /\ batches = 0 /\ batch = None
          /\ save_count = 0 /\ out_file = prior_file
    /\ OnlyCorrupt =>
          /\ pc # "done" /\ ~Started("save")
          /\ pc = "failed" =>
                /\ error = "decode"
                /\ model # None /\ model.compiled
                /\ batch = None
          /\ epoch = 0 /\ batches = 0
          /\ save_count = 0 /\ out_file = prior_file

C5_Witness ==
    /\ dir_exists /\ Len(classes) = 2 /\ NoImageFile
    /\ pc = "failed" /\ prior_file.kind = "other"

(***************************************************************************)
(* C6: an unwritable output path is found out only by save: the I/O error  *)
(* comes after every statement up to save has run and all 5 epochs are     *)
(* done; the run then stays failed (nothing is enabled), nothing was       *)
(* written, and a run with an unwritable path never reaches saved.         *)
(***************************************************************************)
C6_FailsOnlyAtSave ==
    /\ (pc = "failed" /\ error = "io") =>
          /\ ~writable
          /\ trace = PhaseOrder
          /\ epoch = 5
          /\ batches = 5 * NumBatches(TotalFiles)
          /\ ~ENABLED Next
    /\ ~writable =>
          /\ pc # "done"
          /\ save_count = 0
          /\ out_file = prior_file
          /\ (error # "none" /\ ~Started("save")) => error # "io"

C6_Witness == pc = "failed" /\ error = "io" /\ batches = 10

(***************************************************************************)
(* C7 as stated: every batch drawn holds exactly batch_size = 32 images of *)
(* shape 224x224x3.                                                        *)
(***************************************************************************)
C7_Original ==
    batch # None => (batch.size = 32 /\ batch.image_shape = <<224, 224, 3>>)

(***************************************************************************)
(* C7 as amended: every batch holds images of shape 224x224x3; every batch *)
(* but the last of a pass holds exactly 32 of them, and the last holds the *)
(* rest, between 1 and 32: 32 only when the file count is a multiple of 32.*)
(***************************************************************************)
C7_BatchSizes ==
    batch # None =>
        LET n == TotalFiles
            last == NumBatches(n)
        IN  /\ batch.image_shape = <<224, 224, 3>>
            /\ batch.index \in 1..last
            /\ batch.size = IF batch.index < last THEN 32 ELSE n - 32 * (last - 1)
            /\ batch.size \in 1..32
            /\ (batch.size < 32) => (n % 32 # 0)

C7_Witness ==
    /\ batch # None
    /\ batch.index = 2
    /\ batch.size = 1
    /\ pc = "fit_epoch" /\ epoch = 1

(***************************************************************************)
(* C8: the map takes each pixel value p in 0..255 to the fraction p/255,   *)
(* which lies in [0,1], with 0 -> 0 and 255 -> 1 and the order of pixel    *)
(* values kept; it leaves the labels, the number of elements and their     *)
(* order as they were and does not change its input; and every batch fit   *)
(* draws comes through the map.                                            *)
(***************************************************************************)
C8_MapScalesPixels ==
    /\ x_out # None =>
          LET y == x_out.items IN
          /\ Len(y) = Len(x_in)
          /\ \A i \in 1..Len(y) :
                /\ y[i].label = x_in[i].label
                /\ y[i].pixel.den > 0
                /\ y[i].pixel.num * 255 = x_in[i].pixel * y[i].pixel.den
                /\ 0 <= y[i].pixel.num /\ y[i].pixel.num <= y[i].pixel.den
                /\ x_in[i].pixel = 0 => y[i].pixel.num = 0
                /\ x_in[i].pixel = 255 => y[i].pixel.num = y[i].pixel.den
          /\ \A i, j \in 1..Len(y) :
                x_in[i].pixel < x_in[j].pixel =>
                    y[i].pixel.num * y[j].pixel.den < y[j].pixel.num * y[i].pixel.den
    /\ batch # None => batch.scaled

C8_Witness ==
    /\ x_out # None
    /\ Len(x_in) = 2
    /\ x_in[1].pixel = 255 /\ x_in[2].pixel = 0
    /\ x_in[1].label = 1
    /\ batch # None

(***************************************************************************)
(* C9: save writes leaf_model.h5 at most once in a run and exactly once in *)
(* a run that ends saved, replacing whatever the path held; the file then  *)
(* holds the model's topology and the parameters as they are after the     *)
(* last batch of the 5th epoch (5 * NumBatches gradient steps); the        *)
(* parameters change only while fit is running, and before save the path   *)
(* holds what it held at the start.                                        *)
(***************************************************************************)
C9_SavesFinalModel ==
    /\ [](/\ save_count <= 1
          /\ pc = "done" =>
                /\ save_count = 1
                /\ out_file.kind = "model"
                /\ out_file.content.shapes = model.shapes
                /\ out_file.content.weights = model.weights
                /\ out_file.content.weights.steps = 5 * NumBatches(TotalFiles)
          /\ pc # "done" => (save_count = 0 /\ out_file = prior_file))
    /\ [][(model # None /\ model'.weights # model.weights) => pc = "fit_epoch"]_vars

C9_Witness ==
    /\ pc = "done"
    /\ prior_file.kind = "other"
    /\ out_file.kind = "model"
    /\ out_file.content.weights.steps = 10

(***************************************************************************)
(* C10: the layer shapes are 224x224x3 -> 222x222x32 -> 111x111x32 ->      *)
(* 109x109x64 -> 54x54x64 -> 186624 -> 128 -> 2, every dimension is        *)
(* positive, and the model's input shape is the shape of the images the    *)
(* loader produces.                                                        *)
(***************************************************************************)
C10_LayerShapes ==
    model # None =>
        /\ model.shapes = << <<224, 224, 3>>, <<222, 222, 32>>, <<111, 111, 32>>,
                             <<109, 109, 64>>, <<54, 54, 64>>, <<186624>>,
                             <<128>>, <<2>> >>
        /\ \A i \in 1..Len(model.shapes) :
              \A j \in 1..Len(model.shapes[i]) : model.shapes[i][j] > 0
        /\ train_ds.image_shape = model.shapes[1]
        /\ batch # None => batch.image_shape = model.shapes[1]

C10_Witness ==
    /\ model # None
    /\ model.compiled
    /\ batch # None
    /\ batch.image_shape = <<224, 224, 3>>

====
